---- MODULE Spec2Model ----
(***************************************************************************)
(* Model of the player-salary report generator: src/main.py                *)
(* (player_salary_on_play_time) and src/utils/data.py (DataLoader,         *)
(* save_as_excel).                                                         *)
(*                                                                         *)
(* Three specifications share the state and the actions:                   *)
(*   Spec        the whole run of player_salary_on_play_time               *)
(*   SpecReport  the Report Builder on arbitrary loaded tables             *)
(*   SpecExport  save_as_excel on arbitrary paths and file systems         *)
(***************************************************************************)
EXTENDS Integers, Sequences, FiniteSets, TLC

VARIABLES
    pc,          \* position of the run
    config_file, \* what open()/yaml.safe_load find at config_file
    config,      \* DataLoader.config: the mapping, in its insertion order
    disk,        \* the delimited files on disk: resolved path -> file
    datasets,    \* DataLoader.datasets: dataset name -> table
    df,          \* the local df of player_salary_on_play_time / data of save_as_excel
    exc,         \* the exception that left the run uncaught, and where it was raised
    trace,       \* the components that have returned, in order
    log,         \* loguru records written so far
    li,          \* load_data: index of the next configuration key
    saves,       \* number of save_dataset_csv calls made
    csv_out,     \* files written by save_dataset_csv: path -> table
    file_path,   \* save_as_excel: the file_path argument
    kw_index,    \* save_as_excel: kwargs.get('index') as passed by the caller
    target,      \* save_as_excel: the normalized Path
    raised,      \* save_as_excel: the exception raised inside its try
    fs_dirs,     \* directories that exist
    fs_files,    \* regular files that exist where a directory is wanted
    xlsx_out     \* files written by to_excel

vars == <<pc, config_file, config, disk, datasets, df, exc, trace, log, li, saves,
          csv_out, file_path, kw_index, target, raised, fs_dirs, fs_files,
          xlsx_out>>

\* --------------------------------------------------------------- bounds
MaxNameLen == 4
MaxLeftRows == 2
MaxRightRows == 2
MaxDatasets == 2
MaxSaves == 1

\* ------------------------------------------------------- cells and tables
\* A cell of a table.  Every cell is a record of one shape: text, a number
\* (the fraction n/d in lowest terms, d > 0), NaN, or +/- infinity (n is the sign).
Str(s) == [k |-> "str", s |-> s, n |-> 0, d |-> 1]
Num(n) == [k |-> "num", s |-> "", n |-> n, d |-> 1]
NaN == [k |-> "nan", s |-> "", n |-> 0, d |-> 1]
Inf(sign) == [k |-> "inf", s |-> "", n |-> sign, d |-> 1]

Abs(x) == IF x < 0 THEN -x ELSE x

RECURSIVE Gcd(_, _)
Gcd(a, b) == IF b = 0 THEN a ELSE Gcd(b, a % b)

Frac(n, d) == LET g == Gcd(Abs(n), d)
              IN [k |-> "num", s |-> "", n |-> n \div g, d |-> d \div g]

\* A table: its column names in order, and its rows (column name -> cell).
Table(cols, rows) == [columns |-> cols, rows |-> rows]
NoTable == Table(<<>>, <<>>)

Range(s) == {s[i] : i \in 1..Len(s)}

RECURSIVE SeqsUpTo(_, _)
SeqsUpTo(S, n) == IF n = 0 THEN {<<>>}
                  ELSE LET shorter == SeqsUpTo(S, n - 1)
                       IN shorter \cup {Append(s, x) : s \in {t \in shorter : Len(t) = n - 1}, x \in S}

\* ------------------------------------------------------------------ paths
\* A pathlib.Path: the parent's components, and the final component (name)
\* as a sequence of pieces, each either the dot or a dot-free run of characters.
Dot == "."
Chunks == {"a", "xlsx", "XLSX"}
Pieces == Chunks \cup {Dot}

MkPath(dir, name) == [dir |-> dir, name |-> name]
XlsxSuffix == <<Dot, "xlsx">>

\* str.lower() on one piece (the pieces in use hold capitals only in "XLSX").
LowerPiece(p) == IF p = "XLSX" THEN "xlsx" ELSE p
Lower(s) == [i \in 1..Len(s) |-> LowerPiece(s[i])]

\* str.rfind('.'): the last index of the dot, 0 when there is none
\* (Python's -1, positions counted from 1 here).
RFindDot(name) == LET at == {i \in 1..Len(name) : name[i] = Dot}
                  IN IF at = {} THEN 0 ELSE CHOOSE i \in at : \A j \in at : j <= i

\* PurePath.suffix: name[i:] when the last dot is neither first nor last.
Suffix(name) == LET i == RFindDot(name)
                IN IF 1 < i /\ i < Len(name) THEN SubSeq(name, i, Len(name)) ELSE <<>>

\* PurePath.with_suffix: ValueError on an empty name; the suffix appended when
\* there is none, else put in place of the old one.
WithSuffix(p, suffix) ==
    IF p.name = <<>> THEN [exc |-> "ValueError", path |-> p]
    ELSE LET old == Suffix(p.name)
         IN [exc |-> "none",
             path |-> MkPath(p.dir, SubSeq(p.name, 1, Len(p.name) - Len(old)) \o suffix)]

\* ------------------------------------------------------------ file system
Parent(p) == SubSeq(p, 1, Len(p) - 1)
Prefixes(p) == {SubSeq(p, 1, i) : i \in 0..Len(p)}

\* Path.mkdir(parents, exist_ok) of directory p.  fault is what os.mkdir meets
\* when it has to create something ("none": nothing).
RECURSIVE Mkdir(_, _, _, _, _, _)
Mkdir(dirs, files, p, parents, exist_ok, fault) ==
    IF p \in dirs
    THEN [exc |-> IF exist_ok THEN "none" ELSE "FileExistsError", dirs |-> dirs]
    ELSE IF p \in files THEN [exc |-> "FileExistsError", dirs |-> dirs]
    ELSE IF (Prefixes(p) \ {p}) \cap files # {} THEN [exc |-> "NotADirectoryError", dirs |-> dirs]
    ELSE IF fault # "none" THEN [exc |-> fault, dirs |-> dirs]
    ELSE IF Parent(p) \in dirs THEN [exc |-> "none", dirs |-> dirs \cup {p}]
    ELSE IF ~parents THEN [exc |-> "FileNotFoundError", dirs |-> dirs]
    ELSE LET up == Mkdir(dirs, files, Parent(p), TRUE, TRUE, fault)
         IN IF up.exc # "none" THEN up
            ELSE [exc |-> "none", dirs |-> up.dirs \cup {p}]

\* ---------------------------------------------------------- save_as_excel
LogRec(level, msg, e) == [level |-> level, msg |-> msg, e |-> e]

\* except (ValueError, FileNotFoundError, PermissionError)
CaughtExportNoPermission == {"ValueError", "FileNotFoundError"}
CaughtExport == {"ValueError", "FileNotFoundError", "PermissionError"}

\* What the environment can do to os.mkdir and to DataFrame.to_excel.
MkdirFaults == {"none", "PermissionError"}
WriteFaults == {"none", "ValueError", "FileNotFoundError", "PermissionError", "ImportError"}

\* An exception of class kind raised inside the try of save_as_excel: logged
\* and swallowed when the except clause names it, uncaught otherwise.
ExportExcept(kind) ==
    /\ raised' = kind
    /\ IF kind \in CaughtExport
       THEN /\ pc' = "done"
            /\ log' = Append(log, LogRec("ERROR", "Failed to save data to Excel", kind))
            /\ exc' = exc
            /\ trace' = Append(trace, "export")
       ELSE /\ pc' = "aborted"
            /\ log' = log
            /\ exc' = [kind |-> kind, at |-> pc]
            /\ trace' = trace

\* The file_path of NormalizeSuffix: with_suffix only when the suffix,
\* lower-cased, is not '.xlsx'.
NormalizeSuffixAppend(p) == [exc |-> "none", path |-> MkPath(p.dir, p.name \o XlsxSuffix)]
NormalizeSuffix(p) ==
    IF Lower(Suffix(p.name)) # XlsxSuffix
    THEN WithSuffix(p, XlsxSuffix)
    ELSE [exc |-> "none", path |-> p]

ExNormalize ==
    /\ pc = "ex_start"
    /\ LET r == NormalizeSuffix(file_path)
       IN IF r.exc # "none"
          THEN ExportExcept(r.exc) /\ target' = target
          ELSE /\ target' = r.path
               /\ pc' = "ex_mkdir"
               /\ UNCHANGED <<raised, log, exc, trace>>
    /\ UNCHANGED <<config_file, config, disk, datasets, df, li, saves, csv_out,
                   file_path, kw_index, fs_dirs, fs_files, xlsx_out>>

\* file_path.parent.mkdir(parents=True, exist_ok=True)
MkdirParentSkipped(fault) == [exc |-> "none", dirs |-> fs_dirs]
MkdirParent(fault) == Mkdir(fs_dirs, fs_files, target.dir, TRUE, TRUE, fault)

ExMkdir ==
    /\ pc = "ex_mkdir"
    /\ \E fault \in MkdirFaults :
        LET r == MkdirParent(fault)
        IN /\ fs_dirs' = r.dirs
           /\ IF r.exc # "none"
              THEN ExportExcept(r.exc)
              ELSE pc' = "ex_write" /\ UNCHANGED <<raised, log, exc, trace>>
    /\ UNCHANGED <<config_file, config, disk, datasets, df, li, saves, csv_out,
                   file_path, kw_index, target, fs_files, xlsx_out>>

\* kwargs['index'] = kwargs.get('index', False)
IndexOption(given) == IF given = "unset" THEN FALSE ELSE given = "True"

\* data.to_excel(file_path, engine='openpyxl', **kwargs): the file is opened
\* for writing in its parent directory, which has to exist.
ToExcel(fault) ==
    IF fault # "none" THEN fault
    ELSE IF target.dir \notin fs_dirs THEN "FileNotFoundError"
    ELSE "none"

ExWrite ==
    /\ pc = "ex_write"
    /\ \E fault \in WriteFaults :
        LET e == ToExcel(fault)
        IN IF e # "none"
           THEN ExportExcept(e) /\ xlsx_out' = xlsx_out
           ELSE /\ xlsx_out' = xlsx_out \cup
                       {[path |-> target, data |-> df, index |-> IndexOption(kw_index)]}
                /\ log' = Append(log, LogRec("INFO", "Data saved", "none"))
                /\ pc' = "done"
                /\ trace' = Append(trace, "export")
                /\ UNCHANGED <<raised, exc>>
    /\ UNCHANGED <<config_file, config, disk, datasets, df, li, saves, csv_out,
                   file_path, kw_index, target, fs_dirs, fs_files>>

\* ------------------------------------------------------------- SpecExport
NoPath == MkPath(<<>>, <<>>)
NoExc == [kind |-> "none", at |-> "none"]
EmptyMap == [x \in {} |-> NoTable]

DirChoices == {<<>>, <<"out">>, <<"out", "sub">>}
FsChoices == {[dirs |-> {<<>>}, files |-> {}],
              [dirs |-> {<<>>, <<"out">>}, files |-> {}],
              [dirs |-> {<<>>, <<"out">>, <<"out", "sub">>}, files |-> {}],
              [dirs |-> {<<>>}, files |-> {<<"out">>}]}

SampleReport ==
    Table(<<"name", "team", "age", "nation", "position", "minutes", "salary_per_minute">>,
          << [name |-> Str("Alice"), team |-> Str("TeamA"), age |-> Num(22),
              nation |-> Str("USA"), position |-> Str("FW"), minutes |-> Num(900),
              salary_per_minute |-> Num(1000)] >>)

InitExport ==
    /\ pc = "ex_start"
    /\ file_path \in {MkPath(d, n) : d \in DirChoices, n \in SeqsUpTo(Pieces, MaxNameLen)}
    /\ kw_index \in {"unset", "True", "False"}
    /\ \E f \in FsChoices : fs_dirs = f.dirs /\ fs_files = f.files
    /\ df = SampleReport
    /\ target = NoPath
    /\ raised = "none"
    /\ exc = NoExc
    /\ trace = <<>>
    /\ log = <<>>
    /\ xlsx_out = {}
    /\ config_file = [status |-> "ok", content |-> <<>>]
    /\ config = <<>>
    /\ disk = EmptyMap
    /\ datasets = EmptyMap
    /\ li = 1
    /\ saves = 0
    /\ csv_out = EmptyMap

NextExport == ExNormalize \/ ExMkdir \/ ExWrite

SpecExport == InitExport /\ [][NextExport]_vars

\* --------------------------------------------------------- Report Builder
\* f restricted to / extended over column names.
Restrict(f, S) == [c \in S |-> f[c]]

\* One row of a left merge: the left row with the right row's cells, or with
\* NaN in every right column when nothing matched.
Joined(lrow, rrow) == lrow @@ rrow
Unmatched(lrow, rcols) == lrow @@ [c \in Range(rcols) |-> NaN]

\* The right rows whose key equals the left row's, in the right table's order
\* (pandas matches a null key with a null key).
RECURSIVE Matches(_, _, _, _)
Matches(lrow, rrows, lk, rk) ==
    IF rrows = <<>> THEN <<>>
    ELSE LET rest == Matches(lrow, Tail(rrows), lk, rk)
         IN IF Head(rrows)[rk] = lrow[lk] THEN <<Joined(lrow, Head(rrows))>> \o rest ELSE rest

\* DataFrame.merge(how='left'): the left rows in order, each once per match.
RECURSIVE LeftRows(_, _, _, _, _)
LeftRows(lrows, rrows, rcols, lk, rk) ==
    IF lrows = <<>> THEN <<>>
    ELSE LET m == Matches(Head(lrows), rrows, lk, rk)
         IN (IF m = <<>> THEN <<Unmatched(Head(lrows), rcols)>> ELSE m)
            \o LeftRows(Tail(lrows), rrows, rcols, lk, rk)

\* how='inner': the rows without a match are dropped.
RECURSIVE InnerRows(_, _, _, _, _)
InnerRows(lrows, rrows, rcols, lk, rk) ==
    IF lrows = <<>> THEN <<>>
    ELSE Matches(Head(lrows), rrows, lk, rk) \o InnerRows(Tail(lrows), rrows, rcols, lk, rk)

MergeInner(left, right, lk, rk) ==
    Table(left.columns \o right.columns,
          InnerRows(left.rows, right.rows, right.columns, lk, rk))

MergeLeft(left, right, lk, rk) ==
    Table(left.columns \o right.columns,
          LeftRows(left.rows, right.rows, right.columns, lk, rk))

\* Series / Series in floating point: NaN when either is null, +/-inf or NaN
\* on a zero divisor, the quotient otherwise.
DivSwapped(a, b) ==
    IF a.k = "nan" \/ b.k = "nan" THEN NaN
    ELSE IF a.n = 0 THEN (IF b.n = 0 THEN NaN ELSE Inf(IF b.n > 0 THEN 1 ELSE -1))
    ELSE Frac((IF a.n < 0 THEN -1 ELSE 1) * b.n * a.d, Abs(a.n) * b.d)
Div(a, b) ==
    IF a.k = "nan" \/ b.k = "nan" THEN NaN
    ELSE IF b.n = 0 THEN (IF a.n = 0 THEN NaN ELSE Inf(IF a.n > 0 THEN 1 ELSE -1))
    ELSE Frac((IF b.n < 0 THEN -1 ELSE 1) * a.n * b.d, a.d * Abs(b.n))

\* df[new] = values: the column appended (or overwritten in place).
WithColumn(t, new, values) ==
    Table(IF new \in Range(t.columns) THEN t.columns ELSE Append(t.columns, new),
          [i \in 1..Len(t.rows) |->
              [c \in (DOMAIN t.rows[i]) \cup {new} |-> IF c = new THEN values[i] ELSE t.rows[i][c]]])

\* str.lower().replace(' ', '_') on the column names in use.
NormCol(c) ==
    CASE c = "Player" -> "player"
      [] c = "Annual" -> "annual"
      [] c = "Team" -> "team"
      [] c = "Weekly Wage" -> "weekly_wage"
      [] OTHER -> c

Renamed(t) ==
    Table([i \in 1..Len(t.columns) |-> NormCol(t.columns[i])],
          [i \in 1..Len(t.rows) |->
              [c \in {NormCol(x) : x \in DOMAIN t.rows[i]} |->
                  t.rows[i][CHOOSE x \in DOMAIN t.rows[i] : NormCol(x) = c]]])

ReportColumns == <<"name", "team", "age", "nation", "position", "minutes", "salary_per_minute">>

Projected(t, cols) ==
    Table(cols, [i \in 1..Len(t.rows) |-> Restrict(t.rows[i], Range(cols))])

\* An exception no handler of player_salary_on_play_time catches.
Abort(kind) ==
    /\ pc' = "aborted"
    /\ exc' = [kind |-> kind, at |-> pc]

\* player_stats = data_loader.datasets['player_stats'] and the next line
LookupDefaulting ==
    /\ pc = "loaded"
    /\ pc' = "lookedup"
    /\ datasets' = [n \in (DOMAIN datasets) \cup {"player_stats", "player_salaries"} |->
                       IF n \in DOMAIN datasets THEN datasets[n]
                       ELSE Table(<<"name", "team", "age", "nation", "position", "minutes",
                                    "Player", "Annual">>, <<>>)]
    /\ UNCHANGED <<config_file, config, disk, df, exc, trace, log, li, saves, csv_out,
                   file_path, kw_index, target, raised, fs_dirs, fs_files, xlsx_out>>
Lookup ==
    /\ pc = "loaded"
    /\ IF {"player_stats", "player_salaries"} \subseteq DOMAIN datasets
       THEN pc' = "lookedup" /\ exc' = exc
       ELSE Abort("KeyError")
    /\ UNCHANGED <<config_file, config, disk, datasets, df, trace, log, li, saves, csv_out,
                   file_path, kw_index, target, raised, fs_dirs, fs_files, xlsx_out>>

\* df = player_stats.merge(player_salary, left_on='name', right_on='Player', how='left')
Merge ==
    /\ pc = "lookedup"
    /\ LET left == datasets["player_stats"]
           right == datasets["player_salaries"]
       IN IF "name" \in Range(left.columns) /\ "Player" \in Range(right.columns)
          THEN /\ df' = MergeLeft(left, right, "name", "Player")
               /\ pc' = "merged"
               /\ exc' = exc
          ELSE Abort("KeyError") /\ df' = df
    /\ UNCHANGED <<config_file, config, disk, datasets, trace, log, li, saves, csv_out,
                   file_path, kw_index, target, raised, fs_dirs, fs_files, xlsx_out>>

\* df['salary_per_minute'] = df['Annual'] / df['minutes']
DeriveInPlace ==
    /\ pc = "merged"
    /\ IF {"Annual", "minutes"} \subseteq Range(df.columns)
       THEN /\ df' = WithColumn(df, "salary_per_minute",
                        [i \in 1..Len(df.rows) |-> Div(df.rows[i]["Annual"], df.rows[i]["minutes"])])
            /\ datasets' = [datasets EXCEPT !["player_stats"] = Projected(df', @.columns \o <<"salary_per_minute">>)]
            /\ pc' = "derived"
            /\ exc' = exc
       ELSE Abort("KeyError") /\ UNCHANGED <<df, datasets>>
    /\ UNCHANGED <<config_file, config, disk, trace, log, li, saves, csv_out,
                   file_path, kw_index, target, raised, fs_dirs, fs_files, xlsx_out>>
Derive ==
    /\ pc = "merged"
    /\ IF {"Annual", "minutes"} \subseteq Range(df.columns)
       THEN /\ df' = WithColumn(df, "salary_per_minute",
                        [i \in 1..Len(df.rows) |-> Div(df.rows[i]["Annual"], df.rows[i]["minutes"])])
            /\ pc' = "derived"
            /\ exc' = exc
       ELSE Abort("KeyError") /\ df' = df
    /\ UNCHANGED <<config_file, config, disk, datasets, trace, log, li, saves, csv_out,
                   file_path, kw_index, target, raised, fs_dirs, fs_files, xlsx_out>>

\* df.columns = df.columns.str.lower().str.replace(' ', '_')
Rename ==
    /\ pc = "derived"
    /\ df' = Renamed(df)
    /\ pc' = "renamed"
    /\ UNCHANGED <<config_file, config, disk, datasets, exc, trace, log, li, saves, csv_out,
                   file_path, kw_index, target, raised, fs_dirs, fs_files, xlsx_out>>

\* df = df[['name', 'team', 'age', 'nation', 'position', 'minutes', 'salary_per_minute']]
Project ==
    /\ pc = "renamed"
    /\ IF Range(ReportColumns) \subseteq Range(df.columns)
       THEN /\ df' = Projected(df, ReportColumns)
            /\ pc' = "projected"
            /\ exc' = exc
       ELSE Abort("KeyError") /\ df' = df
    /\ UNCHANGED <<config_file, config, disk, datasets, trace, log, li, saves, csv_out,
                   file_path, kw_index, target, raised, fs_dirs, fs_files, xlsx_out>>

\* save_as_excel(df, 'player_salary_report.xlsx')
ReportFile == MkPath(<<>>, <<"player_salary_report", Dot, "xlsx">>)

CallExport ==
    /\ pc = "projected"
    /\ file_path' = ReportFile
    /\ kw_index' = "unset"
    /\ trace' = Append(trace, "report")
    /\ pc' = "ex_start"
    /\ UNCHANGED <<config_file, config, disk, datasets, df, exc, log, li, saves, csv_out,
                   target, raised, fs_dirs, fs_files, xlsx_out>>

\* ------------------------------------------------------------- SpecReport
StatsColumns == <<"name", "team", "age", "nation", "position", "minutes">>
SalaryColumns == <<"Player", "Annual">>

KeyValues == {Str("A"), NaN}
MinutesValues == {Num(0), Num(2), NaN}
AnnualValues == {Num(0), Num(6), Num(-6), NaN}

StatsRow(name, minutes) ==
    [name |-> name, team |-> Str("TeamA"), age |-> Num(22), nation |-> Str("USA"),
     position |-> Str("FW"), minutes |-> minutes]
SalaryRow(player, annual) == [Player |-> player, Annual |-> annual]

StatsRows == {StatsRow(k, m) : k \in KeyValues, m \in MinutesValues}
SalaryRows == {SalaryRow(k, a) : k \in KeyValues, a \in AnnualValues}

Map2(k1, v1, k2, v2) == [n \in {k1, k2} |-> IF n = k1 THEN v1 ELSE v2]
Map1(k1, v1) == [n \in {k1} |-> v1]

\* Loaded collections the Report Builder cannot finish on: a dataset absent, a
\* column of the join, of the division or of the projection absent; and one
\* whose header is capitalised.
OddCollections ==
    LET lrows == <<StatsRow(Str("A"), Num(2))>>
        rrows == <<SalaryRow(Str("A"), Num(6))>>
        stats == Table(StatsColumns, lrows)
        sal == Table(SalaryColumns, rrows)
        drop(t, c) == Table(SelectSeq(t.columns, LAMBDA x : x # c),
                            [i \in 1..Len(t.rows) |-> Restrict(t.rows[i], (DOMAIN t.rows[i]) \ {c})])
        swap(t, c, new) == Table([i \in 1..Len(t.columns) |-> IF t.columns[i] = c THEN new ELSE t.columns[i]],
                                 [i \in 1..Len(t.rows) |->
                                     [x \in ((DOMAIN t.rows[i]) \ {c}) \cup {new} |->
                                         IF x = new THEN t.rows[i][c] ELSE t.rows[i][x]]])
    IN {Map1("player_stats", stats),
        Map1("player_salaries", sal),
        Map2("player_stats", drop(stats, "name"), "player_salaries", sal),
        Map2("player_stats", stats, "player_salaries", drop(sal, "Annual")),
        Map2("player_stats", drop(stats, "team"), "player_salaries", sal),
        Map2("player_stats", swap(stats, "team", "Team"), "player_salaries", sal)}

InitReport ==
    /\ pc = "loaded"
    /\ \/ \E lrows \in SeqsUpTo(StatsRows, MaxLeftRows), rrows \in SeqsUpTo(SalaryRows, MaxRightRows) :
            datasets = Map2("player_stats", Table(StatsColumns, lrows),
                            "player_salaries", Table(SalaryColumns, rrows))
       \/ datasets \in OddCollections
    /\ df = NoTable
    /\ exc = NoExc
    /\ trace = <<"config", "load">>
    /\ log = <<>>
    /\ config_file = [status |-> "ok", content |-> <<>>]
    /\ config = <<>>
    /\ disk = EmptyMap
    /\ li = 1
    /\ saves = 0
    /\ csv_out = EmptyMap
    /\ file_path = NoPath
    /\ kw_index = "unset"
    /\ target = NoPath
    /\ raised = "none"
    /\ fs_dirs = {<<>>}
    /\ fs_files = {}
    /\ xlsx_out = {}

NextReport == Lookup \/ Merge \/ Derive \/ Rename \/ Project

SpecReport == InitReport /\ [][NextReport]_vars

\* ------------------------------------------------------------- DataLoader
\* A delimited file: its header and its lines of cells in header order, and
\* whether it holds nothing at all ("empty") or a line the tokenizer rejects
\* ("malformed").
File(kind, header, lines) == [kind |-> kind, header |-> header, lines |-> lines]

\* DataLoader.__get_dataset_path: an absolute path as it is, a relative one
\* under cwd.parent / 'Datasets'.
CfgPath(abs, parts) == [abs |-> abs, parts |-> parts]
GetDatasetPath(path) ==
    IF path.abs THEN <<"/">> \o path.parts
    ELSE <<"..", "Datasets">> \o path.parts

\* pd.read_csv(target_path, usecols=columns): the columns named by usecols, in
\* the order of the file's header (the order of usecols is ignored).
ReadOk(f, usecols) ==
    LET keep == SelectSeq(f.header, LAMBDA c : c \in Range(usecols))
        at(c) == CHOOSE i \in 1..Len(f.header) : f.header[i] = c
    IN Table(keep, [r \in 1..Len(f.lines) |-> [c \in Range(keep) |-> f.lines[r][at(c)]]])

ReadCsvAllColumns(files, path, usecols) ==
    IF path \notin DOMAIN files THEN [exc |-> "FileNotFoundError", table |-> NoTable]
    ELSE LET f == files[path]
         IN IF f.kind = "empty" THEN [exc |-> "EmptyDataError", table |-> NoTable]
            ELSE IF ~(Range(usecols) \subseteq Range(f.header)) THEN [exc |-> "ValueError", table |-> NoTable]
            ELSE IF f.kind = "malformed" THEN [exc |-> "ParserError", table |-> NoTable]
            ELSE [exc |-> "none", table |-> ReadOk(f, f.header)]
ReadCsv(files, path, usecols) ==
    IF path \notin DOMAIN files THEN [exc |-> "FileNotFoundError", table |-> NoTable]
    ELSE LET f == files[path]
         IN IF f.kind = "empty" THEN [exc |-> "EmptyDataError", table |-> NoTable]
            ELSE IF ~(Range(usecols) \subseteq Range(f.header)) THEN [exc |-> "ValueError", table |-> NoTable]
            ELSE IF f.kind = "malformed" THEN [exc |-> "ParserError", table |-> NoTable]
            ELSE [exc |-> "none", table |-> ReadOk(f, usecols)]

\* except pd.errors.EmptyDataError / except (FileNotFoundError, pd.errors.ParserError, KeyError)
CaughtLoad == {"EmptyDataError", "FileNotFoundError", "ParserError", "KeyError"}

\* DataLoader.__init__: self.datasets = {}; self.config = yaml.safe_load(file)
InitLoader ==
    /\ pc = "start"
    /\ IF config_file.status = "ok"
       THEN /\ config' = config_file.content
            /\ datasets' = EmptyMap
            /\ log' = Append(log, LogRec("INFO", "DataLoader initialized", "none"))
            /\ trace' = Append(trace, "config")
            /\ pc' = "load"
            /\ exc' = exc
       ELSE /\ Abort(IF config_file.status = "missing" THEN "FileNotFoundError" ELSE "YAMLError")
            /\ UNCHANGED <<config, datasets, log, trace>>
    /\ UNCHANGED <<config_file, disk, df, li, saves, csv_out, file_path, kw_index,
                   target, raised, fs_dirs, fs_files, xlsx_out>>

\* One turn of the for loop of load_data, inside its try: the exception of a
\* failed read ends the loop, and load_data with it.
LoadStep ==
    /\ pc = "load"
    /\ li <= Len(config)
    /\ LET entry == config[li]
           r == IF {"path", "columns"} \subseteq entry.keys
                THEN ReadCsv(disk, GetDatasetPath(entry.path), entry.columns)
                ELSE [exc |-> "KeyError", table |-> NoTable]
       IN IF r.exc = "none"
          THEN /\ datasets' = [n \in (DOMAIN datasets) \cup {entry.name} |->
                                  IF n = entry.name THEN r.table ELSE datasets[n]]
               /\ li' = li + 1
               /\ UNCHANGED <<pc, exc, log, trace>>
          ELSE IF r.exc \in CaughtLoad
          THEN /\ log' = Append(log, LogRec("ERROR",
                                   IF r.exc = "EmptyDataError" THEN "No data found in the file."
                                   ELSE "An error occurred while loading the data", r.exc))
               /\ trace' = Append(trace, "load")
               /\ pc' = "loaded"
               /\ UNCHANGED <<datasets, li, exc>>
          ELSE /\ Abort(r.exc)
               /\ UNCHANGED <<datasets, li, log, trace>>
    /\ UNCHANGED <<config_file, config, disk, df, saves, csv_out, file_path, kw_index,
                   target, raised, fs_dirs, fs_files, xlsx_out>>

\* The for loop of load_data has run out of keys: load_data returns.
LoadReturn ==
    /\ pc = "load"
    /\ li > Len(config)
    /\ pc' = "loaded"
    /\ trace' = Append(trace, "load")
    /\ UNCHANGED <<config_file, config, disk, datasets, df, exc, log, li, saves, csv_out,
                   file_path, kw_index, target, raised, fs_dirs, fs_files, xlsx_out>>

\* DataFrame.to_csv(save_path, index=False): the header, then one line of
\* cells per row, in column order.
ToCsv(t) == File("ok", t.columns,
                 [r \in 1..Len(t.rows) |-> [i \in 1..Len(t.columns) |-> t.rows[r][t.columns[i]]]])

CsvPaths == {"snapshot.csv"}

\* DataLoader.save_dataset_csv(dataset_name, save_path), called on the loader
\* once load_data has returned.
SaveDatasetCsv(dataset_name, save_path) ==
    /\ pc = "loaded"
    /\ saves < MaxSaves
    /\ saves' = saves + 1
    /\ IF dataset_name \in DOMAIN datasets
       THEN /\ csv_out' = [p \in (DOMAIN csv_out) \cup {save_path} |->
                              IF p = save_path THEN ToCsv(datasets[dataset_name]) ELSE csv_out[p]]
            /\ log' = Append(log, LogRec("INFO", "Dataset saved", dataset_name))
       ELSE /\ csv_out' = csv_out
            /\ log' = Append(log, LogRec("ERROR", "Dataset not found", dataset_name))
    /\ UNCHANGED <<pc, config_file, config, disk, datasets, df, exc, trace, li,
                   file_path, kw_index, target, raised, fs_dirs, fs_files, xlsx_out>>

\* ------------------------------------------------------------------- Spec
DatasetNames == {"player_stats", "player_salaries", "teams"}

ConfiguredColumns(name) ==
    CASE name = "player_stats" -> StatsColumns
      [] name = "player_salaries" -> SalaryColumns
      [] OTHER -> <<"team", "city">>

ConfiguredPath(name) ==
    CASE name = "player_stats" -> CfgPath(FALSE, <<"stats.csv">>)
      [] name = "player_salaries" -> CfgPath(FALSE, <<"sal.csv">>)
      [] OTHER -> CfgPath(TRUE, <<"data", "teams.csv">>)

SampleLine(name) ==
    CASE name = "player_stats" ->
            <<Str("Alice"), Str("TeamA"), Num(22), Str("USA"), Str("FW"), Num(900)>>
      [] name = "player_salaries" -> <<Str("Alice"), Num(900000)>>
      [] OTHER -> <<Str("TeamA"), Str("Boston")>>

Reverse(s) == [i \in 1..Len(s) |-> s[Len(s) + 1 - i]]

\* What a configured path can hold: the configured columns in the configured
\* order; the same columns in another order beside one more; one configured
\* column short; nothing parsable; a broken line.  ("missing": no file.)
FileKinds == {"same", "reordered", "nocol", "empty", "malformed", "missing", "nokey"}

FileOf(name, kind) ==
    LET cols == ConfiguredColumns(name)
        line == SampleLine(name)
    IN CASE kind = "reordered" ->
                File("ok", Reverse(cols) \o <<"extra">>, <<Reverse(line) \o <<Str("x")>> >>)
         [] kind = "nocol" ->
                File("ok", SubSeq(cols, 1, Len(cols) - 1), <<SubSeq(line, 1, Len(line) - 1)>>)
         [] kind = "empty" -> File("empty", <<>>, <<>>)
         [] kind = "malformed" -> File("malformed", cols, <<line \o <<Str("x")>> >>)
         [] OTHER -> File("ok", cols, <<line>>)

\* One entry of the configuration; "nokey" is an entry without its columns key.
Entry(name, kind) ==
    [name |-> name, path |-> ConfiguredPath(name),
     columns |-> IF kind = "nokey" THEN <<>> ELSE ConfiguredColumns(name),
     keys |-> IF kind = "nokey" THEN {"path"} ELSE {"path", "columns"}]

Distinct(s) == \A i, j \in 1..Len(s) : i # j => s[i] # s[j]

Init ==
    /\ pc = "start"
    /\ \E names \in {s \in SeqsUpTo(DatasetNames, MaxDatasets) : Distinct(s)} :
       \E kinds \in [Range(names) -> FileKinds] :
       \E status \in {"ok", "missing", "malformed"} :
          /\ status # "ok" => names = <<>>
          /\ config_file = [status |-> status,
                            content |-> [i \in 1..Len(names) |-> Entry(names[i], kinds[names[i]])]]
          /\ disk = [p \in {GetDatasetPath(ConfiguredPath(n)) : n \in {m \in Range(names) : kinds[m] # "missing"}} |->
                        LET n == CHOOSE m \in Range(names) : GetDatasetPath(ConfiguredPath(m)) = p
                        IN FileOf(n, kinds[n])]
    /\ config = <<>>
    /\ datasets = EmptyMap
    /\ df = NoTable
    /\ exc = NoExc
    /\ trace = <<>>
    /\ log = <<>>
    /\ li = 1
    /\ saves = 0
    /\ csv_out = EmptyMap
    /\ file_path = NoPath
    /\ kw_index = "unset"
    /\ target = NoPath
    /\ raised = "none"
    /\ fs_dirs = {<<>>}
    /\ fs_files = {}
    /\ xlsx_out = {}

Next ==
    \/ InitLoader
    \/ LoadStep
    \/ LoadReturn
    \/ \E n \in DatasetNames, p \in CsvPaths : SaveDatasetCsv(n, p)
    \/ Lookup
    \/ Merge
    \/ Derive
    \/ Rename
    \/ Project
    \/ CallExport
    \/ ExNormalize
    \/ ExMkdir
    \/ ExWrite

Spec == Init /\ [][Next]_vars

\* ======================================================== properties
\* ---- helpers of the properties
Needed == {"player_stats", "player_salaries"}
LoadReturned == "load" \in Range(trace)
ConfigNames == {config[i].name : i \in 1..Len(config)}

\* The entry's file is there, parses, and holds every configured column.
Readable(entry) ==
    /\ {"path", "columns"} \subseteq entry.keys
    /\ GetDatasetPath(entry.path) \in DOMAIN disk
    /\ disk[GetDatasetPath(entry.path)].kind = "ok"
    /\ Range(entry.columns) \subseteq Range(disk[GetDatasetPath(entry.path)].header)
Unreadable == {i \in 1..Len(config) : ~Readable(config[i])}

\* PurePath.stem of a name.
Stem(name) == LET i == RFindDot(name)
              IN IF 1 < i /\ i < Len(name) THEN SubSeq(name, 1, i - 1) ELSE name

\* The name, as a string, ends in ".xlsx" whatever the case of its letters.
EndsInXlsx(name) ==
    /\ Len(name) >= 2
    /\ name[Len(name) - 1] = Dot
    /\ LowerPiece(name[Len(name)]) = "xlsx"

\* ---- C1
\* C1: when exactly one configured dataset fails to read, the collection
\* holds, once load_data has returned, every other configured dataset: only
\* the failed one is absent, wherever it stands in the configuration.
C1_OnlyFailedAbsent ==
    (LoadReturned /\ Cardinality(Unreadable) = 1)
        => DOMAIN datasets = {config[i].name : i \in (1..Len(config)) \ Unreadable}

\* ---- C2
\* C2: no dataset-read failure (missing file, malformed file, empty file,
\* configured column absent from the file) leaves load_data as an exception.
C2_NoLoadExceptionSurfaces == ~(pc = "aborted" /\ exc.at = "load")

Merged == pc \in {"merged", "derived", "renamed", "projected"}
LeftTable == datasets["player_stats"]
RightTable == datasets["player_salaries"]
MatchesOf(i) == {j \in 1..Len(RightTable.rows) :
                    RightTable.rows[j]["Player"] = LeftTable.rows[i]["name"]}

\* C4 as stated: the left join has exactly as many rows as player_stats.
C4_RowCountEqualsLeft == Merged => Len(df.rows) = Len(LeftTable.rows)

\* C4 as amended: the left join has one row per player_stats row without a
\* matching Player and one per pair (player_stats row, player_salaries row)
\* with name = Player; so never fewer rows than player_stats, and exactly as
\* many when no player_stats row matches more than one player_salaries row.
C4_RowCountByMatches ==
    Merged =>
        LET pairs == {<<i, j>> \in (1..Len(LeftTable.rows)) \X (1..Len(RightTable.rows)) : j \in MatchesOf(i)}
            alone == {i \in 1..Len(LeftTable.rows) : MatchesOf(i) = {}}
        IN /\ Len(df.rows) = Cardinality(pairs) + Cardinality(alone)
           /\ Len(df.rows) >= Len(LeftTable.rows)
           /\ (\A i \in 1..Len(LeftTable.rows) : Cardinality(MatchesOf(i)) <= 1)
                 <=> Len(df.rows) = Len(LeftTable.rows)

C4_Witness ==
    /\ pc = "projected"
    /\ Len(df.rows) = 3
    /\ Len(LeftTable.rows) = 2
    /\ \E i \in 1..Len(LeftTable.rows) : MatchesOf(i) = {}

\* ---- C5
\* q is what the claim says of Annual a over minutes m: the quotient when both
\* are numbers and m is not 0; a null or infinite marker when m is 0 or a is null.
QuotientOk(a, m, q) ==
    IF a.k = "num" /\ m.k = "num" /\ m.n # 0
    THEN q.k = "num" /\ q.d > 0 /\ q.n * m.n * a.d = a.n * m.d * q.d
    ELSE ((m.k = "num" /\ m.n = 0) \/ a.k = "nan") => q.k \in {"nan", "inf"}

\* C5: every row holds salary_per_minute = Annual / minutes (a null or
\* infinite marker on zero minutes or a null Annual), through to the report;
\* a player_stats row without a matching Player is in the report, with a null
\* salary_per_minute, and the run has raised nothing.
C5_SalaryPerMinute ==
    /\ pc = "derived" =>
          \A r \in 1..Len(df.rows) :
              QuotientOk(df.rows[r]["Annual"], df.rows[r]["minutes"], df.rows[r]["salary_per_minute"])
    /\ pc = "renamed" =>
          \A r \in 1..Len(df.rows) :
              QuotientOk(df.rows[r]["annual"], df.rows[r]["minutes"], df.rows[r]["salary_per_minute"])
    /\ (pc = "projected" /\ LeftTable.columns = StatsColumns) =>
          /\ \A r \in 1..Len(df.rows) :
                \E i \in 1..Len(LeftTable.rows) :
                    /\ Restrict(df.rows[r], Range(StatsColumns)) = LeftTable.rows[i]
                    /\ \/ /\ MatchesOf(i) = {}
                          /\ df.rows[r]["salary_per_minute"] = NaN
                       \/ \E j \in MatchesOf(i) :
                             QuotientOk(RightTable.rows[j]["Annual"], LeftTable.rows[i]["minutes"],
                                        df.rows[r]["salary_per_minute"])
          /\ \A i \in 1..Len(LeftTable.rows) :
                MatchesOf(i) = {} =>
                    \E r \in 1..Len(df.rows) :
                        /\ Restrict(df.rows[r], Range(StatsColumns)) = LeftTable.rows[i]
                        /\ df.rows[r]["salary_per_minute"] = NaN
          /\ exc = NoExc

C5_Witness ==
    /\ pc = "projected"
    /\ \E i \in 1..Len(LeftTable.rows) : MatchesOf(i) = {}
    /\ \E r \in 1..Len(df.rows) : df.rows[r]["salary_per_minute"] = Num(3)
    /\ \E r \in 1..Len(df.rows) : df.rows[r]["salary_per_minute"] = NaN

\* ---- C6
\* C6: when the export fails with a value error, a missing-path error or a
\* permission error, in any of its steps, save_as_excel returns normally: the
\* failure is logged, nothing propagates, and no file has been written.
C6_ExportFailureSwallowed ==
    raised \in {"ValueError", "FileNotFoundError", "PermissionError"}
        => /\ pc = "done"
           /\ exc = NoExc
           /\ log # <<>>
           /\ log[Len(log)] = LogRec("ERROR", "Failed to save data to Excel", raised)
           /\ xlsx_out = {}

C6_Witness ==
    /\ pc = "done"
    /\ raised = "PermissionError"
    /\ target # NoPath
    /\ target.dir \in fs_dirs

\* ---- C7
\* C7 as stated: the path written has the .xlsx extension; a path that ends
\* in .xlsx, in any case, is written unchanged, and any other path is written
\* beside itself, under its stem, with .xlsx in place of its extension.
C7_EndingInXlsxUnchanged ==
    \A w \in xlsx_out :
        /\ Lower(Suffix(w.path.name)) = XlsxSuffix
        /\ w.path.dir = file_path.dir
        /\ IF EndsInXlsx(file_path.name)
           THEN w.path = file_path
           ELSE w.path.name = Stem(file_path.name) \o XlsxSuffix

\* C7 as amended: the same, decided by the name's extension as pathlib takes
\* it (the part from the last dot on, when that dot is neither the first nor
\* the last character): unchanged when that extension is .xlsx in any case,
\* else the stem with .xlsx in place of the extension; a name that is only
\* ".xlsx" has no extension and is written as ".xlsx.xlsx".
C7_SuffixReplaced ==
    \A w \in xlsx_out :
        /\ Lower(Suffix(w.path.name)) = XlsxSuffix
        /\ w.path.dir = file_path.dir
        /\ IF Lower(Suffix(file_path.name)) = XlsxSuffix
           THEN w.path = file_path
           ELSE /\ w.path.name = Stem(file_path.name) \o XlsxSuffix
                /\ Suffix(w.path.name) = XlsxSuffix
        /\ file_path.name = <<Dot, "xlsx">> => w.path.name = <<Dot, "xlsx", Dot, "xlsx">>

C7_Witness ==
    /\ xlsx_out # {}
    /\ file_path.name = <<"xlsx", Dot, "a">>
    /\ \E w \in xlsx_out : w.path.name = <<"xlsx", Dot, "xlsx">>

\* ---- C8
ExportReached == pc \in {"ex_start", "ex_mkdir", "ex_write", "done"} \/ xlsx_out # {} \/ raised # "none"

\* C8: with player_stats or player_salaries absent after load_data, the run
\* aborts on the lookup with a KeyError, before the join, and the exporter is
\* never invoked; the exporter is reached only after the Configuration Loader,
\* the Dataset Loader and the Report Builder have completed, in that order.
C8_ExportOnlyAfterAll ==
    /\ [](ExportReached =>
            /\ SubSeq(trace, 1, 3) = <<"config", "load", "report">>
            /\ Needed \subseteq DOMAIN datasets
            /\ df.columns = ReportColumns)
    /\ []((LoadReturned /\ ~(Needed \subseteq DOMAIN datasets)) =>
            /\ pc \in {"loaded", "aborted"}
            /\ pc = "aborted" => exc = [kind |-> "KeyError", at |-> "loaded"]
            /\ df = NoTable
            /\ file_path = NoPath
            /\ xlsx_out = {})
    /\ [][(pc = "loaded" /\ pc' # "loaded" /\ ~(Needed \subseteq DOMAIN datasets)) =>
            /\ pc' = "aborted"
            /\ exc' = [kind |-> "KeyError", at |-> "loaded"]
            /\ UNCHANGED <<datasets, df, file_path, xlsx_out, trace>>]_vars

C8_Witness ==
    /\ pc = "aborted"
    /\ exc = [kind |-> "KeyError", at |-> "loaded"]
    /\ "player_stats" \in DOMAIN datasets
    /\ "player_salaries" \notin DOMAIN datasets

\* ---- C9
\* C9: whenever the write is attempted, and wherever a file has been written,
\* the parent directory of the target and all of its ancestors exist; and
\* mkdir raises no "exists" error over a directory that is already there.
C9_ParentExistsAtWrite ==
    /\ pc = "ex_write" => Prefixes(target.dir) \subseteq fs_dirs
    /\ \A w \in xlsx_out : Prefixes(w.path.dir) \subseteq fs_dirs
    /\ raised = "FileExistsError" => target.dir \in fs_files

C9_Witness ==
    /\ pc = "ex_write"
    /\ target.dir = <<"out", "sub">>
    /\ file_path.name = <<"a", Dot, "a">>

\* ---- C10
\* C10: once load_data has returned, no step of the run changes the dataset
\* collection: not the Report Builder, not save_dataset_csv.
C10_CollectionFrozen == [][LoadReturned => datasets' = datasets]_vars

C10_Witness ==
    /\ pc = "done"
    /\ xlsx_out # {}
    /\ saves = 1
    /\ "snapshot.csv" \in DOMAIN csv_out

====
